---- MODULE Spec2Model ----
(***************************************************************************)
(* A model of the json_parser crate: the lexer (src/src/tokenizer.rs), the *)
(* recursive-descent parser and the string unescaper (src/src/parser.rs)   *)
(* and the `parse` pipeline (src/src/lib.rs).                              *)
(*                                                                         *)
(* A `char` is its Unicode code point (a natural number); a character or   *)
(* token slice is a TLA+ sequence, so Rust's `v[i]` is `v[i + 1]` here.    *)
(* An index outside a slice makes Rust panic: the panic is the outcome     *)
(* "Panic", distinct from Ok and Err.                                      *)
(***************************************************************************)
EXTENDS Integers, Sequences, FiniteSets, TLC

\* ------------------------------------------------------------ bounds
MaxTextLen == 4
MaxLitLen == 5
MaxNumLen == 4
MaxStrLen == 6
MaxRawLen == 4
MaxHexLen == 6
MaxTokens == 5
MaxInner == 1
MaxItems == 2
MaxTrail == 2

\* ------------------------------------------------------------ characters
CH_LBRACE == 123
CH_RBRACE == 125
CH_LBRACKET == 91
CH_RBRACKET == 93
CH_COMMA == 44
CH_COLON == 58
CH_QUOTE == 34
CH_BACKSLASH == 92
CH_MINUS == 45
CH_DOT == 46
CH_SPACE == 32
CH_n == 110
CH_t == 116
CH_f == 102
CH_u == 117
CH_l == 108
CH_r == 114
CH_e == 101
CH_a == 97
CH_s == 115
CH_b == 98
CH_x == 120
CH_ZERO == 48
CH_ONE == 49
CH_SLASH == 47
CH_D == 68
CH_d == 100
CH_Z == 90
CH_POO == 128169

LitNull == <<CH_n, CH_u, CH_l, CH_l>>
LitTrue == <<CH_t, CH_r, CH_u, CH_e>>
LitFalse == <<CH_f, CH_a, CH_l, CH_s, CH_e>>

\* char::is_ascii_whitespace: space, tab, line feed, form feed, carriage return
IsAsciiWhitespace(c) == c \in {32, 9, 10, 12, 13}

\* char::is_ascii_digit
IsAsciiDigit(c) == c \in 48..57

\* ------------------------------------------------------------ tokens
Tok(type) == [type |-> type]
TokNumber(f) == [type |-> "Number", number |-> f]
TokString(s) == [type |-> "String", string |-> s]

\* ------------------------------------------------------------ results
\* The outcome of a call that moves an index: Ok(val), Err(val) or a panic,
\* and the index the call leaves behind.
Ok(val, index) == [kind |-> "Ok", val |-> val, index |-> index]
Err(err, index) == [kind |-> "Err", val |-> [err |-> err], index |-> index]
ErrChar(ch, index) ==
    [kind |-> "Err", val |-> [err |-> "CharNotRecognized", ch |-> ch], index |-> index]
Panic(index) == [kind |-> "Panic", val |-> [panic |-> "index out of bounds"], index |-> index]

\* ------------------------------------------------------------ lexer
\* tokenize_literal: the for loop over the literal's characters, from its
\* k-th character on, then `*index -= 1`.
RECURSIVE tokenize_literal_loop(_, _, _, _, _)
tokenize_literal_loop(chars, index, literal_value, k, token_value) ==
    IF k > Len(literal_value) THEN Ok(token_value, index - 1)
    ELSE IF index >= Len(chars) THEN Panic(index)
    ELSE IF literal_value[k] # chars[index + 1] THEN Err("UnfinishedLiteralValue", index)
    ELSE tokenize_literal_loop(chars, index + 1, literal_value, k + 1, token_value)

tokenize_literal(chars, index, literal_value, token_value) ==
    tokenize_literal_loop(chars, index, literal_value, 1, token_value)

\* The digits of s (a '.' skipped) read as a decimal natural number.
RECURSIVE DigitsValue(_)
DigitsValue(s) ==
    IF s = <<>> THEN 0
    ELSE LET c == s[Len(s)]
             front == SubSeq(s, 1, Len(s) - 1)
         IN IF c = CH_DOT THEN DigitsValue(front)
            ELSE 10 * DigitsValue(front) + (c - CH_ZERO)

\* mant / 10^scale with the trailing zeros of the fraction dropped: two
\* numerals have the same double value iff they normalise alike (within the
\* 15 significant digits a double holds exactly).
RECURSIVE Normalise(_, _, _)
Normalise(neg, mant, scale) ==
    IF scale > 0 /\ mant % 10 = 0 THEN Normalise(neg, mant \div 10, scale - 1)
    ELSE [neg |-> neg, mant |-> mant, scale |-> scale]

\* str::parse::<f64> on a text of digits, '-' and '.': an optional leading
\* '-', then digits with at most one '.', and at least one digit.
ParseFloat(s) ==
    LET neg == s # <<>> /\ s[1] = CH_MINUS
        body == IF neg THEN Tail(s) ELSE s
        dots == {i \in DOMAIN body : body[i] = CH_DOT}
        digits == {i \in DOMAIN body : IsAsciiDigit(body[i])}
        valid == /\ digits # {}
                 /\ Cardinality(dots) <= 1
                 /\ DOMAIN body = dots \cup digits
        scale == IF dots = {} THEN 0 ELSE Len(body) - (CHOOSE i \in dots : TRUE)
    IN IF valid THEN [ok |-> TRUE, f |-> Normalise(neg, DigitsValue(body), scale)]
       ELSE [ok |-> FALSE, f |-> Normalise(FALSE, 0, 0)]

\* tokenize_float: the while loop, which accumulates unparsed_num.
RECURSIVE tokenize_float_loop(_, _, _, _)
tokenize_float_loop(chars, index, unparsed_num, is_decimal) ==
    IF index >= Len(chars) THEN [index |-> index, unparsed_num |-> unparsed_num]
    ELSE LET ch == chars[index + 1] IN
         IF IsAsciiDigit(ch) \/ ch = CH_MINUS
         THEN tokenize_float_loop(chars, index + 1, Append(unparsed_num, ch), is_decimal)
         ELSE IF ch = CH_DOT /\ ~is_decimal
         THEN tokenize_float_loop(chars, index + 1, Append(unparsed_num, CH_DOT), TRUE)
         ELSE [index |-> index, unparsed_num |-> unparsed_num]

tokenize_float(chars, index) ==
    LET scan == tokenize_float_loop(chars, index, <<>>, FALSE)
        parsed == ParseFloat(scan.unparsed_num)
    IN IF parsed.ok THEN Ok(TokNumber(parsed.f), scan.index - 1)
       ELSE Err("ParseNumberError", scan.index - 1)

\* tokenize_string's loop with a backslash always entering escape mode
\* (`in_escape_mode = true` for `!in_escape_mode`).
RECURSIVE tokenize_string_loop_sets(_, _, _, _)
tokenize_string_loop_sets(chars, index, string, in_escape_mode) ==
    LET next == index + 1 IN
    IF next >= Len(chars) THEN Err("UnclosedQuotes", next)
    ELSE LET ch == chars[next + 1] IN
         IF ch = CH_QUOTE /\ ~in_escape_mode THEN Ok(TokString(string), next)
         ELSE tokenize_string_loop_sets(chars, next, Append(string, ch), ch = CH_BACKSLASH)

\* tokenize_string: the loop, entered with *index on the opening quote.
RECURSIVE tokenize_string_loop(_, _, _, _)
tokenize_string_loop(chars, index, string, in_escape_mode) ==
    LET next == index + 1 IN
    IF next >= Len(chars) THEN Err("UnclosedQuotes", next)
    ELSE LET ch == chars[next + 1] IN
         IF ch = CH_QUOTE /\ ~in_escape_mode THEN Ok(TokString(string), next)
         ELSE tokenize_string_loop(chars, next, Append(string, ch),
                                   IF ch = CH_BACKSLASH THEN ~in_escape_mode ELSE FALSE)

tokenize_string(chars, index) == tokenize_string_loop(chars, index, <<>>, FALSE)

\* The whitespace loop as an `if`: at most one whitespace character skipped.
skip_whitespace_once(chars, index) ==
    IF index < Len(chars) /\ IsAsciiWhitespace(chars[index + 1]) THEN index + 1 ELSE index

\* create_token: the whitespace loop. The index of the first character at or
\* after index that is not whitespace, or Len(chars) when there is none.
RECURSIVE skip_whitespace(_, _)
skip_whitespace(chars, index) ==
    IF index < Len(chars) /\ IsAsciiWhitespace(chars[index + 1])
    THEN skip_whitespace(chars, index + 1)
    ELSE index

\* create_token, called with *index < chars.len() by tokenize.
create_token(chars, index) ==
    IF index >= Len(chars) THEN Panic(index)
    ELSE LET at == skip_whitespace(chars, index) IN
         IF at >= Len(chars) THEN Err("UnexpectedEof", at)
         ELSE LET ch == chars[at + 1] IN
              CASE ch = CH_LBRACE -> Ok(Tok("LeftBrace"), at)
                [] ch = CH_RBRACE -> Ok(Tok("RightBrace"), at)
                [] ch = CH_LBRACKET -> Ok(Tok("LeftBracket"), at)
                [] ch = CH_RBRACKET -> Ok(Tok("RightBracket"), at)
                [] ch = CH_COMMA -> Ok(Tok("Comma"), at)
                [] ch = CH_COLON -> Ok(Tok("Colon"), at)
                [] ch = CH_n -> tokenize_literal(chars, at, LitNull, Tok("Null"))
                [] ch = CH_t -> tokenize_literal(chars, at, LitTrue, Tok("True"))
                [] ch = CH_f -> tokenize_literal(chars, at, LitFalse, Tok("False"))
                [] ch = CH_QUOTE -> tokenize_string(chars, at)
                [] IsAsciiDigit(ch) \/ ch = CH_MINUS -> tokenize_float(chars, at)
                [] OTHER -> ErrChar(ch, at)

\* ------------------------------------------------------------ values
VNull == [t |-> "Null"]
VBoolean(b) == [t |-> "Boolean", b |-> b]
VString(s) == [t |-> "String", s |-> s]
VNumber(f) == [t |-> "Number", f |-> f]
VArray(items) == [t |-> "Array", items |-> items]
VObject(map) == [t |-> "Object", map |-> map]

\* HashMap::new and HashMap::insert: a later insert of a key replaces the value.
EmptyMap == [k \in {} |-> VNull]
MapInsert(map, key, value) ==
    [k \in DOMAIN map \cup {key} |-> IF k = key THEN value ELSE map[k]]

\* ------------------------------------------------------------ unescape
\* char::to_digit(16): the digit's value, or -1 for None.
ToDigit16(c) ==
    IF c \in 48..57 THEN c - 48
    ELSE IF c \in 97..102 THEN c - 87
    ELSE IF c \in 65..70 THEN c - 55
    ELSE -1

\* char::from_u32 is Some: a Unicode scalar value (no surrogate half).
IsScalarValue(n) == n \in 0..1114111 /\ n \notin 55296..57343

\* The 'u' arm's loop with the digits weighted little-endian (`pow(i)`).
RECURSIVE read_hex4_little_endian(_, _, _, _)
read_hex4_little_endian(input, pos, i, sum) ==
    IF i = 4 THEN Ok(sum, pos)
    ELSE IF pos >= Len(input) THEN Err("UnfinishedEscape", pos)
    ELSE LET digit == ToDigit16(input[pos + 1]) IN
         IF digit < 0 THEN Err("InvalidHexValue", pos + 1)
         ELSE read_hex4_little_endian(input, pos + 1, i + 1, sum + (16 ^ i) * digit)

\* The `for i in 0..4` loop of the 'u' arm, from iteration i with the iterator
\* at pos: Ok(sum) or the error, and the iterator's position afterwards.
RECURSIVE read_hex4(_, _, _, _)
read_hex4(input, pos, i, sum) ==
    IF i = 4 THEN Ok(sum, pos)
    ELSE IF pos >= Len(input) THEN Err("UnfinishedEscape", pos)
    ELSE LET digit == ToDigit16(input[pos + 1]) IN
         IF digit < 0 THEN Err("InvalidHexValue", pos + 1)
         ELSE read_hex4(input, pos + 1, i + 1, sum + (16 ^ (3 - i)) * digit)

\* The escape-mode match with 'f' pushing the form feed U+000C.
EscapedCharFormFeed(next_char) ==
    CASE next_char = CH_BACKSLASH -> CH_BACKSLASH
      [] next_char = CH_QUOTE -> CH_QUOTE
      [] next_char = CH_n -> 10
      [] next_char = CH_r -> 13
      [] next_char = CH_t -> 9
      [] next_char = CH_b -> 8
      [] next_char = CH_f -> 12
      [] OTHER -> next_char

\* What the escape-mode match pushes for a simple escape character.
EscapedChar(next_char) ==
    CASE next_char = CH_BACKSLASH -> CH_BACKSLASH
      [] next_char = CH_QUOTE -> CH_QUOTE
      [] next_char = CH_n -> 10
      [] next_char = CH_r -> 13
      [] next_char = CH_t -> 9
      [] next_char = CH_b -> 8
      [] next_char = CH_f -> 18
      [] OTHER -> next_char

\* The state of unescape_string's loop: the iterator's position (characters
\* taken so far), in_escape_mode, output, and how the function has ended.
UnescapeStart ==
    [pos |-> 0, in_escape_mode |-> FALSE, output |-> <<>>, kind |-> "Running", err |-> ""]

\* One iteration of `while let Some(next_char) = chars.next()`.
unescape_step(input, st) ==
    LET next_char == input[st.pos + 1]
        pos == st.pos + 1
    IN IF st.in_escape_mode
       THEN IF next_char = CH_u
            THEN LET hex == read_hex4(input, pos, 0, 0) IN
                 IF hex.kind = "Err"
                 THEN [st EXCEPT !.pos = hex.index, !.kind = "Err", !.err = hex.val.err]
                 ELSE IF ~IsScalarValue(hex.val)
                 THEN [st EXCEPT !.pos = hex.index, !.kind = "Err",
                                 !.err = "InvalidCodePointValue"]
                 ELSE [st EXCEPT !.pos = hex.index, !.in_escape_mode = FALSE,
                                 !.output = Append(@, hex.val)]
            ELSE [st EXCEPT !.pos = pos, !.in_escape_mode = FALSE,
                            !.output = Append(@, EscapedChar(next_char))]
       ELSE IF next_char = CH_BACKSLASH
            THEN [st EXCEPT !.pos = pos, !.in_escape_mode = TRUE]
            ELSE [st EXCEPT !.pos = pos, !.output = Append(@, next_char)]

\* The loop's exit when the iterator is exhausted: Ok(output).
unescape_return(st) == [st EXCEPT !.kind = "Ok"]

RECURSIVE unescape_run(_, _)
unescape_run(input, st) ==
    IF st.kind # "Running" THEN st
    ELSE IF st.pos >= Len(input) THEN unescape_return(st)
    ELSE unescape_run(input, unescape_step(input, st))

unescape_string(input) == unescape_run(input, UnescapeStart)

\* ------------------------------------------------------------ parser
parse_string(input, index) ==
    LET u == unescape_string(input) IN
    IF u.kind = "Ok" THEN Ok(VString(u.output), index) ELSE Err(u.err, index)

RECURSIVE parse_tokens(_, _)
RECURSIVE parse_array_loop(_, _, _)
RECURSIVE parse_object_loop(_, _, _)

\* One pass of parse_array's loop and what follows it; index is the cursor
\* before `*index += 1`.
parse_array_loop(tokens, index, output) ==
    LET at == index + 1 IN
    IF at >= Len(tokens) THEN Panic(at)
    ELSE IF tokens[at + 1].type = "RightBracket" THEN Ok(VArray(output), at + 1)
    ELSE LET r == parse_tokens(tokens, at) IN
         IF r.kind # "Ok" THEN r
         ELSE IF r.index >= Len(tokens) THEN Panic(r.index)
         ELSE LET type == tokens[r.index + 1].type IN
              CASE type = "Comma" -> parse_array_loop(tokens, r.index, Append(output, r.val))
                [] type = "RightBracket" -> Ok(VArray(Append(output, r.val)), r.index + 1)
                [] OTHER -> Err("ExpectedComma", r.index)

parse_array(tokens, index) == parse_array_loop(tokens, index, <<>>)

\* The tail of parse_object's loop body: the delimiter check at the cursor.
parse_object_delimiter(tokens, index, output) ==
    IF index >= Len(tokens) THEN Panic(index)
    ELSE LET type == tokens[index + 1].type IN
         CASE type = "Comma" -> parse_object_loop(tokens, index, output)
           [] type = "RightBrace" -> Ok(VObject(output), index)
           [] OTHER -> Err("ExpectedComma", index)

\* parse_object's loop with the missing colon raised as an error
\* (`else { return Err(TokenParseError::ExpectedColon) }`).
parse_object_loop_strict(tokens, index, output) ==
    LET at == index + 1 IN
    IF at >= Len(tokens) THEN Panic(at)
    ELSE IF tokens[at + 1].type = "RightBrace" THEN Ok(VObject(output), at)
    ELSE IF tokens[at + 1].type # "String" THEN Err("ExpectedProperty", at)
    ELSE LET prop == tokens[at + 1].string
             after == at + 1
         IN IF after >= Len(tokens) THEN Panic(after)
            ELSE IF tokens[after + 1].type = "Colon"
            THEN LET key == unescape_string(prop) IN
                 IF key.kind # "Ok" THEN Err(key.err, after + 1)
                 ELSE LET r == parse_tokens(tokens, after + 1) IN
                      IF r.kind # "Ok" THEN r
                      ELSE parse_object_delimiter(tokens, r.index,
                                                  MapInsert(output, key.output, r.val))
            ELSE Err("ExpectedColon", after)

\* One pass of parse_object's loop and what follows it; index is the cursor
\* before `*index += 1`. The loop is left with the cursor on the RightBrace.
parse_object_loop(tokens, index, output) ==
    LET at == index + 1 IN
    IF at >= Len(tokens) THEN Panic(at)
    ELSE IF tokens[at + 1].type = "RightBrace" THEN Ok(VObject(output), at)
    ELSE IF tokens[at + 1].type # "String" THEN Err("ExpectedProperty", at)
    ELSE LET prop == tokens[at + 1].string
             after == at + 1
         IN IF after >= Len(tokens) THEN Panic(after)
            ELSE IF tokens[after + 1].type = "Colon"
            THEN LET key == unescape_string(prop) IN
                 IF key.kind # "Ok" THEN Err(key.err, after + 1)
                 ELSE LET r == parse_tokens(tokens, after + 1) IN
                      IF r.kind # "Ok" THEN r
                      ELSE parse_object_delimiter(tokens, r.index,
                                                  MapInsert(output, key.output, r.val))
            ELSE parse_object_delimiter(tokens, after, output)

parse_object(tokens, index) == parse_object_loop(tokens, index, EmptyMap)

parse_tokens(tokens, index) ==
    IF index >= Len(tokens) THEN Panic(index)
    ELSE LET token == tokens[index + 1]
             next == IF token.type \in {"Null", "False", "True", "Number", "String"}
                     THEN index + 1 ELSE index
         IN CASE token.type = "Null" -> Ok(VNull, next)
              [] token.type = "False" -> Ok(VBoolean(FALSE), next)
              [] token.type = "True" -> Ok(VBoolean(TRUE), next)
              [] token.type = "Number" -> Ok(VNumber(token.number), next)
              [] token.type = "String" -> parse_string(token.string, next)
              [] token.type = "LeftBracket" -> parse_array(tokens, next)
              [] token.type = "LeftBrace" -> parse_object(tokens, next)
              [] OTHER -> Err("ExpectedValue", next)

\* ------------------------------------------------------------ state
VARIABLES
    pc,       \* where the run is: "tokenize", "created", "parse_tokens", "unescape", "done"
    chars,    \* tokenize: the input's characters
    index,    \* tokenize: the index into chars
    entry,    \* the index the last create_token call was entered with
    token,    \* the token create_token returned, not yet pushed
    tokens,   \* the token sequence: built by tokenize, read by parse_tokens
    start,    \* the cursor parse_tokens was called with
    cursor,   \* parse_tokens: the shared cursor into tokens
    input,    \* unescape_string: the raw text
    ust,      \* unescape_string: the loop's state
    doc,      \* the document a generated token sequence was written from
    result    \* how the run ended

vars == <<pc, chars, index, entry, token, tokens, start, cursor, input, ust, doc, result>>

NoToken == Tok("None")
NoDoc == [k |-> "none"]
NoResult == [kind |-> "None", from |-> "none", val |-> [none |-> TRUE]]

\* All sequences over S of length at most n.
SeqsUpTo(S, n) == UNION {[1..k -> S] : k \in 0..n}

\* ------------------------------------------------------------ parse (lib.rs)
\* `parse(input)`: tokenize is entered with index 0 and no tokens.
InitParse(text) ==
    /\ pc = "tokenize"
    /\ chars \in text
    /\ index = 0
    /\ entry = 0
    /\ token = NoToken
    /\ tokens = <<>>
    /\ start = 0
    /\ cursor = 0
    /\ input = <<>>
    /\ ust = UnescapeStart
    /\ doc = NoDoc
    /\ result = NoResult

\* tokenize's loop body up to the `?`: create_token returns a token or the
\* error (or panics), which ends parse.
CreateToken ==
    /\ pc = "tokenize"
    /\ index < Len(chars)
    /\ LET r == create_token(chars, index) IN
       /\ entry' = index
       /\ index' = r.index
       /\ IF r.kind = "Ok"
          THEN /\ token' = r.val
               /\ pc' = "created"
               /\ result' = result
          ELSE /\ token' = token
               /\ pc' = "done"
               /\ result' = [kind |-> r.kind, from |-> "tokenize", val |-> r.val]
    /\ UNCHANGED <<chars, tokens, start, cursor, input, ust, doc>>

\* tokenize's loop body after the `?`: tokens.push(token); index += 1.
PushToken ==
    /\ pc = "created"
    /\ tokens' = Append(tokens, token)
    /\ index' = index + 1
    /\ token' = NoToken
    /\ pc' = "tokenize"
    /\ UNCHANGED <<chars, entry, start, cursor, input, ust, doc, result>>

\* tokenize returns Ok(tokens); parse calls parse_tokens(&tokens, &mut 0).
TokenizeReturn ==
    /\ pc = "tokenize"
    /\ index >= Len(chars)
    /\ pc' = "parse_tokens"
    /\ start' = 0
    /\ cursor' = 0
    /\ UNCHANGED <<chars, index, entry, token, tokens, input, ust, doc, result>>

\* parse_tokens(tokens, index), the whole recursive call.
ParseTokens ==
    /\ pc = "parse_tokens"
    /\ LET r == parse_tokens(tokens, cursor) IN
       /\ cursor' = r.index
       /\ result' = [kind |-> r.kind, from |-> "parse_tokens", val |-> r.val]
    /\ pc' = "done"
    /\ UNCHANGED <<chars, index, entry, token, tokens, start, input, ust, doc>>

Next == CreateToken \/ PushToken \/ TokenizeReturn \/ ParseTokens

\* The characters the general text inputs are made of.
TextAlphabet ==
    {CH_LBRACKET, CH_RBRACKET, CH_LBRACE, CH_RBRACE, CH_COMMA, CH_COLON,
     CH_QUOTE, CH_a, CH_ONE, CH_SPACE, CH_n, CH_x}

Init == InitParse(SeqsUpTo(TextAlphabet, MaxTextLen))

Spec == Init /\ [][Next]_vars

\* ------------------------------------------------------------ parse_tokens alone
\* parse_tokens is public: it is called on any token slice, with the cursor
\* anywhere in it (as the recursive calls do), or at 0 on an empty slice.
InitTokens(slices) ==
    /\ pc = "parse_tokens"
    /\ chars = <<>>
    /\ index = 0
    /\ entry = 0
    /\ token = NoToken
    /\ tokens \in slices
    /\ start \in {0} \cup (0..(Len(tokens) - 1))
    /\ cursor = start
    /\ input = <<>>
    /\ ust = UnescapeStart
    /\ doc = NoDoc
    /\ result = NoResult

NextTokens == ParseTokens

TokenAlphabet ==
    {Tok("LeftBrace"), Tok("RightBrace"), Tok("LeftBracket"), Tok("RightBracket"),
     Tok("Comma"), Tok("Colon"), Tok("Null"), TokString(<<CH_a>>)}

InitTokensAll == InitTokens(SeqsUpTo(TokenAlphabet, MaxTokens))

SpecTokens == InitTokensAll /\ [][NextTokens]_vars

\* ------------------------------------------------------------ well-formed documents
\* A document is a scalar token, an array of documents or an object of
\* (raw key, document) entries; Render writes its token sequence.
ScalarDoc(t) == [k |-> "scalar", tok |-> t]
ArrayDoc(items) == [k |-> "array", items |-> items]
ObjectDoc(entries) == [k |-> "object", entries |-> entries]

DocScalars == {ScalarDoc(Tok("Null")), ScalarDoc(TokString(<<CH_BACKSLASH, CH_n>>))}
\* Raw keys: `a`, `\a` (which unescapes to `a` too) and `b`.
DocKeys == {<<CH_a>>, <<CH_BACKSLASH, CH_a>>, <<CH_b>>}

ArrayDocs(S, n) == {ArrayDoc(items) : items \in SeqsUpTo(S, n)}
ObjectDocs(S, n) == {ObjectDoc(entries) : entries \in SeqsUpTo(DocKeys \X S, n)}

InnerDocs == DocScalars \cup ArrayDocs(DocScalars, MaxInner) \cup ObjectDocs(DocScalars, MaxInner)
TopDocs == ArrayDocs(InnerDocs, MaxItems) \cup ObjectDocs(InnerDocs, MaxItems)

RECURSIVE Render(_)
RECURSIVE RenderItems(_, _)
RECURSIVE RenderEntries(_, _)
\* items i.. of an array, separated by commas
RenderItems(items, i) ==
    IF i > Len(items) THEN <<>>
    ELSE (IF i > 1 THEN <<Tok("Comma")>> ELSE <<>>) \o Render(items[i])
         \o RenderItems(items, i + 1)
RenderEntries(entries, i) ==
    IF i > Len(entries) THEN <<>>
    ELSE (IF i > 1 THEN <<Tok("Comma")>> ELSE <<>>)
         \o <<TokString(entries[i][1]), Tok("Colon")>> \o Render(entries[i][2])
         \o RenderEntries(entries, i + 1)
Render(d) ==
    CASE d.k = "scalar" -> <<d.tok>>
      [] d.k = "array" ->
            <<Tok("LeftBracket")>> \o RenderItems(d.items, 1) \o <<Tok("RightBracket")>>
      [] d.k = "object" ->
            <<Tok("LeftBrace")>> \o RenderEntries(d.entries, 1) \o <<Tok("RightBrace")>>

InitDocs(docs) ==
    /\ pc = "parse_tokens"
    /\ chars = <<>>
    /\ index = 0
    /\ entry = 0
    /\ token = NoToken
    /\ doc \in docs
    /\ tokens = Render(doc)
    /\ start = 0
    /\ cursor = 0
    /\ input = <<>>
    /\ ust = UnescapeStart
    /\ result = NoResult

InitTopDocs == InitDocs(TopDocs)

SpecDocs == InitTopDocs /\ [][NextTokens]_vars

\* ------------------------------------------------------------ what a document means
\* The text a raw string stands for (the documents' strings all unescape).
Unescaped(raw) == unescape_string(raw).output

RECURSIVE Meaning(_)
\* The Value a well-formed document stands for: an array holds its items in
\* order; an object maps each unescaped key to its last occurrence's value.
Meaning(d) ==
    CASE d.k = "scalar" ->
            (CASE d.tok.type = "Null" -> VNull
               [] d.tok.type = "True" -> VBoolean(TRUE)
               [] d.tok.type = "False" -> VBoolean(FALSE)
               [] d.tok.type = "Number" -> VNumber(d.tok.number)
               [] d.tok.type = "String" -> VString(Unescaped(d.tok.string)))
      [] d.k = "array" -> VArray([i \in 1..Len(d.items) |-> Meaning(d.items[i])])
      [] d.k = "object" ->
            LET keys == {Unescaped(d.entries[i][1]) : i \in 1..Len(d.entries)}
                last(key) == CHOOSE i \in 1..Len(d.entries) :
                                /\ Unescaped(d.entries[i][1]) = key
                                /\ \A j \in (i + 1)..Len(d.entries) :
                                      Unescaped(d.entries[j][1]) # key
            IN VObject([key \in keys |-> Meaning(d.entries[last(key)][2])])

\* The index of the last token of the value that starts at s: s itself for a
\* scalar, the index of the matching closing bracket for an array or an
\* object, -1 when the brackets opened at s are never closed.
RECURSIVE MatchingClose(_, _, _)
MatchingClose(toks, i, depth) ==
    IF i >= Len(toks) THEN -1
    ELSE LET type == toks[i + 1].type
             d == CASE type \in {"LeftBracket", "LeftBrace"} -> depth + 1
                    [] type \in {"RightBracket", "RightBrace"} -> depth - 1
                    [] OTHER -> depth
         IN IF d = 0 THEN i ELSE MatchingClose(toks, i + 1, d)

LastTokenOfValue(toks, s) == MatchingClose(toks, s, 0)

Done == pc = "done"
ParsedOk == Done /\ result.from = "parse_tokens" /\ result.kind = "Ok"

\* ------------------------------------------------------------ claims
\* C1: for every input string, parse returns Ok or Err: no step of the lexer
\* or the parser indexes the characters or the tokens at or past their end.
C1_ParseNeverPanics == Done => result.kind \in {"Ok", "Err"}

\* C2: whenever parse_tokens returns Ok for a value that starts at cursor
\* position s, the cursor on return is one past the last token of that value
\* (s + 1 for a scalar, one past the matching `]` or `}` otherwise).
C2_CursorOnePastValue == ParsedOk => cursor = LastTokenOfValue(tokens, start) + 1

\* C3: for every well-formed object `{` key `:` value `,` ... `}` parse_tokens
\* returns Value::Object mapping exactly the unescaped keys, each to the parsed
\* value of its last occurrence.
C3_ObjectParsed ==
    (Done /\ doc.k = "object") => (result.kind = "Ok" /\ result.val = Meaning(doc))

\* C4: for every well-formed array `[` value `,` ... `]` parse_tokens returns
\* Value::Array holding exactly the parsed values in source order.
C4_ArrayParsed ==
    (Done /\ doc.k = "array") => (result.kind = "Ok" /\ result.val = Meaning(doc))

\* ------------------------------------------------------------ lexer inputs
\* parse on texts of the letters of the three literals and a comma.
LiteralAlphabet == {CH_n, CH_u, CH_l, CH_t, CH_r, CH_e, CH_f, CH_a, CH_s, CH_COMMA}
InitLiteral == InitParse(SeqsUpTo(LiteralAlphabet, MaxLitLen))
SpecLiteral == InitLiteral /\ [][Next]_vars

\* parse on texts of digits, '-', '.' and a comma.
NumberAlphabet == {CH_ZERO, CH_ONE, CH_MINUS, CH_DOT, CH_COMMA}
InitNumber == InitParse(SeqsUpTo(NumberAlphabet, MaxNumLen))
SpecNumber == InitNumber /\ [][Next]_vars

\* parse on texts of quotes, backslashes, a letter and a comma.
StringAlphabet == {CH_QUOTE, CH_BACKSLASH, CH_a, CH_COMMA}
InitString == InitParse(SeqsUpTo(StringAlphabet, MaxStrLen))
SpecString == InitString /\ [][Next]_vars

\* ------------------------------------------------------------ lexer claims
\* create_token has just returned (to tokenize's `?`).
AfterCreateToken == pc = "created" \/ (Done /\ result.from = "tokenize")
TokenizeFailed(err) ==
    Done /\ result.from = "tokenize" /\ result.kind = "Err" /\ result.val = [err |-> err]

\* The indices at or after the last create_token's entry that hold no whitespace.
NonWhitespaceFrom(i) == {j \in i..(Len(chars) - 1) : ~IsAsciiWhitespace(chars[j + 1])}
Least(S) == CHOOSE j \in S : \A k \in S : j <= k
\* The index of the character the last create_token call dispatched on.
TokenStart == Least(NonWhitespaceFrom(entry))
StartsWith(set) ==
    AfterCreateToken /\ NonWhitespaceFrom(entry) # {} /\ chars[TokenStart + 1] \in set

\* The text has all of lit's characters from index at on.
HasLiteralAt(at, lit) ==
    /\ at + Len(lit) <= Len(chars)
    /\ \A k \in 1..Len(lit) : chars[at + k] = lit[k]

LiteralOf(c) == CASE c = CH_n -> LitNull [] c = CH_t -> LitTrue [] c = CH_f -> LitFalse
LiteralToken(c) ==
    CASE c = CH_n -> Tok("Null") [] c = CH_t -> Tok("True") [] c = CH_f -> Tok("False")

\* C5: on a literal-starting letter the lexer produces the literal's token only
\* when all of the literal's characters are present, leaving the index on the
\* literal's last character; a differing character or the end of the input
\* before the literal is complete gives Err(UnfinishedLiteralValue).
C5_LiteralOutcome ==
    StartsWith({CH_n, CH_t, CH_f}) =>
        LET c == chars[TokenStart + 1] IN
        IF HasLiteralAt(TokenStart, LiteralOf(c))
        THEN /\ pc = "created"
             /\ token = LiteralToken(c)
             /\ index = TokenStart + Len(LiteralOf(c)) - 1
        ELSE TokenizeFailed("UnfinishedLiteralValue")

\* Where a numeral of the shape  -? digits (. digits)?  that starts at index i
\* ends (one past its last character): the first character that does not fit.
RECURSIVE DigitsEnd(_)
DigitsEnd(i) ==
    IF i < Len(chars) /\ IsAsciiDigit(chars[i + 1]) THEN DigitsEnd(i + 1) ELSE i
ShapeEnd(i) ==
    LET afterSign == IF chars[i + 1] = CH_MINUS THEN i + 1 ELSE i
        afterInt == DigitsEnd(afterSign)
    IN IF afterInt < Len(chars) /\ chars[afterInt + 1] = CH_DOT
       THEN DigitsEnd(afterInt + 1) ELSE afterInt
\* The characters i..j-1 of the text.
Lexeme(i, j) == SubSeq(chars, i + 1, j)

\* C7: the number scanner stops at the first character that does not fit the
\* shape -? digits (. digits)? (a later '-' or a second '.' is not taken), and
\* a lexeme that parses yields one Number token with its value, the index
\* left on the lexeme's last character.
C7_NumberShape ==
    StartsWith((48..57) \cup {CH_MINUS}) =>
        LET end == ShapeEnd(TokenStart)
            parsed == ParseFloat(Lexeme(TokenStart, end))
        IN /\ index = end - 1
           /\ IF parsed.ok
              THEN pc = "created" /\ token = TokNumber(parsed.f)
              ELSE TokenizeFailed("ParseNumberError")

\* The number of consecutive backslashes that end right before index j and
\* lie after index low.
RECURSIVE BackslashesBefore(_, _)
BackslashesBefore(j, low) ==
    IF j - 1 > low /\ chars[j] = CH_BACKSLASH THEN 1 + BackslashesBefore(j - 1, low) ELSE 0

\* The indices of the quotes after the opening quote at index open that are
\* not preceded by an odd number of consecutive backslashes.
ClosingQuotes(open) ==
    {j \in (open + 1)..(Len(chars) - 1) :
        chars[j + 1] = CH_QUOTE /\ BackslashesBefore(j, open) % 2 = 0}

\* C8: the string scanner returns exactly the characters between the opening
\* quote and the first following quote not preceded by an odd number of
\* consecutive backslashes, every backslash and escaped character kept, with
\* the index left on that closing quote; without such a quote tokenize
\* returns Err(UnclosedQuotes).
C8_StringScanned ==
    StartsWith({CH_QUOTE}) =>
        IF ClosingQuotes(TokenStart) # {}
        THEN LET close == Least(ClosingQuotes(TokenStart)) IN
             /\ pc = "created"
             /\ token = TokString(Lexeme(TokenStart + 1, close))
             /\ index = close
        ELSE TokenizeFailed("UnclosedQuotes")

\* A String token that holds an escaped backslash and an escaped quote.
C8_Witness ==
    /\ pc = "created"
    /\ token.type = "String"
    /\ \E i \in 1..(Len(token.string) - 3) :
          SubSeq(token.string, i, i + 3) = <<CH_BACKSLASH, CH_BACKSLASH, CH_BACKSLASH, CH_QUOTE>>

\* The text ends with an ASCII whitespace character.
EndsInWhitespace == chars # <<>> /\ IsAsciiWhitespace(chars[Len(chars)])

\* C6 as stated: every input whose last character is whitespace makes tokenize
\* return Err(UnexpectedEof).
C6_TrailingWhitespaceIsEof == (Done /\ EndsInWhitespace) => TokenizeFailed("UnexpectedEof")

\* C6, amended: whitespace in front of a token produces no token (create_token
\* does what it does when entered on the token's first character); when only
\* whitespace is left create_token returns Err(UnexpectedEof); an input whose
\* last character is whitespace never tokenizes: it ends in an Err of the
\* lexer, which is UnexpectedEof unless an earlier lexeme failed first.
C6_WhitespaceSkipped ==
    /\ AfterCreateToken =>
          IF NonWhitespaceFrom(entry) = {}
          THEN TokenizeFailed("UnexpectedEof")
          ELSE LET r == create_token(chars, TokenStart) IN
               /\ index = r.index
               /\ IF r.kind = "Ok" THEN pc = "created" /\ token = r.val
                  ELSE Done /\ result.kind = r.kind /\ result.val = r.val
    /\ (Done /\ EndsInWhitespace) => (result.from = "tokenize" /\ result.kind = "Err")

\* A token was pushed and the whitespace after it ran into the end of the input.
C6_Witness == TokenizeFailed("UnexpectedEof") /\ tokens # <<>> /\ index - entry >= 2

\* ------------------------------------------------------------ unescape_string alone
InitUnescape(raws) ==
    /\ pc = "unescape"
    /\ chars = <<>>
    /\ index = 0
    /\ entry = 0
    /\ token = NoToken
    /\ tokens = <<>>
    /\ start = 0
    /\ cursor = 0
    /\ input \in raws
    /\ ust = UnescapeStart
    /\ doc = NoDoc
    /\ result = NoResult

\* One iteration of unescape_string's loop; an error (`?`) returns at once.
UnescapeStep ==
    /\ pc = "unescape"
    /\ ust.pos < Len(input)
    /\ ust' = unescape_step(input, ust)
    /\ IF ust'.kind = "Err"
       THEN /\ pc' = "done"
            /\ result' = [kind |-> "Err", from |-> "unescape_string",
                          val |-> [err |-> ust'.err]]
       ELSE UNCHANGED <<pc, result>>
    /\ UNCHANGED <<chars, index, entry, token, tokens, start, cursor, input, doc>>

\* The iterator is exhausted: unescape_string returns Ok(output).
UnescapeReturn ==
    /\ pc = "unescape"
    /\ ust.pos >= Len(input)
    /\ ust' = unescape_return(ust)
    /\ pc' = "done"
    /\ result' = [kind |-> "Ok", from |-> "unescape_string", val |-> ust'.output]
    /\ UNCHANGED <<chars, index, entry, token, tokens, start, cursor, input, doc>>

NextUnescape == UnescapeStep \/ UnescapeReturn

\* Raw texts of the simple escapes: no 'u'.
EscapeAlphabet ==
    {CH_BACKSLASH, CH_QUOTE, CH_n, CH_r, CH_t, CH_b, CH_f, CH_SLASH, CH_a, CH_POO}
InitEscapes == InitUnescape(SeqsUpTo(EscapeAlphabet, MaxRawLen))
SpecUnescape == InitEscapes /\ [][NextUnescape]_vars

\* Raw texts of `\u` escapes: hexadecimal digits and a letter that is none.
UnicodeAlphabet == {CH_BACKSLASH, CH_u, CH_ZERO, CH_D, CH_d, CH_Z}
InitUnicode == InitUnescape(SeqsUpTo(UnicodeAlphabet, MaxHexLen))
SpecUnicode == InitUnicode /\ [][NextUnescape]_vars

\* ------------------------------------------------------------ unescape claims
\* The number of consecutive backslashes of the raw text right before its
\* i-th character.
RECURSIVE RawBackslashesBefore(_)
RawBackslashesBefore(i) ==
    IF i > 1 /\ input[i - 1] = CH_BACKSLASH THEN 1 + RawBackslashesBefore(i - 1) ELSE 0

\* The i-th character is escaped: an odd number of backslashes precedes it.
IsEscaped(i) == RawBackslashesBefore(i) % 2 = 1

\* What an escaped character stands for: backslash, quote, newline, carriage
\* return, tab, backspace, the form-feed stand-in 0x12; any other, itself.
StandsFor(c) ==
    CASE c = CH_BACKSLASH -> CH_BACKSLASH
      [] c = CH_QUOTE -> CH_QUOTE
      [] c = CH_n -> 10
      [] c = CH_r -> 13
      [] c = CH_t -> 9
      [] c = CH_b -> 8
      [] c = CH_f -> 18
      [] OTHER -> c

\* What the first n characters of the raw text decode to.
RECURSIVE Decoded(_)
Decoded(n) ==
    IF n = 0 THEN <<>>
    ELSE Decoded(n - 1) \o (IF IsEscaped(n) THEN <<StandsFor(input[n])>>
                            ELSE IF input[n] = CH_BACKSLASH THEN <<>>
                            ELSE <<input[n]>>)

\* C9: unescape_string decodes in one forward pass: an unescaped backslash is
\* dropped and escapes the next character, which emits what it stands for;
\* any other character is copied; escape mode lasts one character; a text
\* without backslashes is returned unchanged.
C9_SimpleEscapes ==
    pc \in {"unescape", "done"} =>
        /\ ust.output = Decoded(ust.pos)
        /\ ust.in_escape_mode = IsEscaped(ust.pos + 1)
        /\ Done => (result.kind = "Ok" /\ result.val = Decoded(Len(input)))
        /\ (Done /\ \A i \in 1..Len(input) : input[i] # CH_BACKSLASH) => result.val = input

\* `\f\<non-ASCII>` decoded: the stand-in 0x12 and the character unchanged.
C9_Witness ==
    /\ Done
    /\ input = <<CH_BACKSLASH, CH_f, CH_BACKSLASH, CH_POO>>
    /\ result.val = <<18, CH_POO>>

\* The loop is about to take the `u` of a `\u` escape.
OnUnicodeEscape ==
    pc = "unescape" /\ ust.in_escape_mode /\ ust.pos < Len(input) /\ input[ust.pos + 1] = CH_u

IsHexDigit(c) == c \in (48..57) \cup (65..70) \cup (97..102)
HexDigitValue(c) == IF c <= 57 THEN c - 48 ELSE (c % 32) + 9

\* How many of the four characters after the `u` the text still has, and
\* the k-th of them.
HexAvailable == IF Len(input) - (ust.pos + 1) < 4 THEN Len(input) - (ust.pos + 1) ELSE 4
HexChar(k) == input[ust.pos + 1 + k]
HexBigEndian ==
    4096 * HexDigitValue(HexChar(1)) + 256 * HexDigitValue(HexChar(2))
    + 16 * HexDigitValue(HexChar(3)) + HexDigitValue(HexChar(4))
IsSurrogateHalf(n) == n \in 55296..57343

\* The step ended unescape_string with Err(err).
EscapeFails(err, ustNext, pcNext, resultNext) ==
    /\ pcNext = "done"
    /\ ustNext.kind = "Err"
    /\ resultNext.kind = "Err"
    /\ resultNext.val = [err |-> err]

\* The step took the four digits and emitted their value as one character.
EscapeEmits(ustNext, pcNext) ==
    /\ HexBigEndian \in 0..65535
    /\ IF IsSurrogateHalf(HexBigEndian)
       THEN ustNext.kind = "Err" /\ ustNext.err = "InvalidCodePointValue" /\ pcNext = "done"
       ELSE /\ pcNext = "unescape"
            /\ ustNext.kind = "Running"
            /\ ustNext.output = Append(ust.output, HexBigEndian)
            /\ ustNext.pos = ust.pos + 5
            /\ ustNext.in_escape_mode = FALSE

BareDoc == [k |-> "bare"]
PlainDocs == DocScalars \cup ArrayDocs(DocScalars, MaxInner)
BareKeyDocs ==
    {[k |-> "bare_keys", entries |-> entries] :
        entries \in SeqsUpTo(DocKeys \X (PlainDocs \cup {BareDoc}), MaxItems)}

RECURSIVE RenderBareKeys(_, _)
RenderBareKeys(entries, i) ==
    IF i > Len(entries) THEN <<>>
    ELSE (IF i > 1 THEN <<Tok("Comma")>> ELSE <<>>)
         \o <<TokString(entries[i][1])>>
         \o (IF entries[i][2].k = "bare" THEN <<>>
             ELSE <<Tok("Colon")>> \o Render(entries[i][2]))
         \o RenderBareKeys(entries, i + 1)

InitBareKeys ==
    /\ pc = "parse_tokens"
    /\ chars = <<>>
    /\ index = 0
    /\ entry = 0
    /\ token = NoToken
    /\ doc \in BareKeyDocs
    /\ tokens = <<Tok("LeftBrace")>> \o RenderBareKeys(doc.entries, 1) \o <<Tok("RightBrace")>>
    /\ start = 0
    /\ cursor = 0
    /\ input = <<>>
    /\ ust = UnescapeStart
    /\ result = NoResult

\* parse_tokens on every token slice and on every object with bare keys.
InitColon == InitTokensAll \/ InitBareKeys
SpecColon == InitColon /\ [][NextTokens]_vars

\* The entries of a bare-key object that have a colon and a value.
WithColon(entries) == SelectSeq(entries, LAMBDA e : e[2].k # "bare")

ParseFailed(err) ==
    Done /\ result.from = "parse_tokens" /\ result.kind = "Err" /\ result.val = [err |-> err]

\* The value at start is `{` String X ... with X no Colon.
BareFirstKey ==
    /\ doc.k = "none"
    /\ start + 2 < Len(tokens)
    /\ tokens[start + 1].type = "LeftBrace"
    /\ tokens[start + 2].type = "String"
    /\ tokens[start + 3].type # "Colon"

\* The token slice without the bare first key and the comma after it.
WithoutFirstKey == SubSeq(tokens, 1, start + 1) \o SubSeq(tokens, start + 4, Len(tokens))

TrailingDocs == InnerDocs \cup TopDocs

InitTrailing ==
    /\ pc = "parse_tokens"
    /\ chars = <<>>
    /\ index = 0
    /\ entry = 0
    /\ token = NoToken
    /\ doc \in TrailingDocs
    /\ \E rest \in SeqsUpTo(TokenAlphabet, MaxTrail) : tokens = Render(doc) \o rest
    /\ start = 0
    /\ cursor = 0
    /\ input = <<>>
    /\ ust = UnescapeStart
    /\ result = NoResult

SpecTrailing == InitTrailing /\ [][NextTokens]_vars

\* The tokens after the first value.
Trailing == SubSeq(tokens, Len(Render(doc)) + 1, Len(tokens))

\* C12: for a token sequence that starts with one complete value the result
\* is Ok with that value whatever tokens follow it: the result is the one of
\* the value's tokens alone and the cursor never passes the value's end.
C12_FirstValueOnly ==
    (Done /\ doc.k # "none") =>
        /\ result.kind = "Ok"
        /\ result.val = Meaning(doc)
        /\ cursor <= Len(Render(doc))
        /\ LET alone == parse_tokens(Render(doc), start) IN
           result.kind = alone.kind /\ result.val = alone.val /\ cursor = alone.index

====
